---- MODULE Spec2Model ----
(***************************************************************************)
(* State-machine model of the rustmission terminal dashboard: the torrents *)
(* table (rows, fuzzy filter, selection cursor), the popups of the main    *)
(* window, the Add-Magnet bar and the two background fetch tasks.          *)
(*                                                                         *)
(* Every handler holds the table_manager mutex for its whole body, so a    *)
(* handler, a render and a set_new_rows are atomic steps of the model.     *)
(***************************************************************************)
EXTENDS Integers, Sequences, FiniteSets, TLC

\* ---------------------------------------------------------------- bounds
MaxId == 3
MaxText == 1

\* ------------------------------------------------------- Option<T> values
None == <<>>

Some(x) == <<x>>

\* ------------------------------------------------------------ input sets
Ids == 1..MaxId

Variants == {0, 1}

Patterns == { <<"a">>, <<"b">>, <<"a", "b">> }

Errors == {"e1", "e2"}

StatsValues == {1, 2}

Chars == {"m", "d"}

Keys == {"Enter", "Esc", "Backspace"} \cup Chars

DownloadDir == <<"d">>

NoArg == "-"

Act(k) == [kind |-> k, arg |-> NoArg]

PlainKinds == {"Up", "Down", "Confirm", "Quit", "ShowStats", "Pause", "AddMagnet"}

Actions ==
  {Act(k) : k \in PlainKinds}
    \cup {[kind |-> "Error", arg |-> e] : e \in Errors}
    \cup {[kind |-> "Input", arg |-> k] : k \in Keys}

\* ----------------------------------------------------- torrent snapshots
\* Names cycle through "A", "b", "ab", "ba"; the status delivered for a
\* torrent depends on the poll variant, so a torrent changes status over time.
NameOf(i) ==
  CASE i % 4 = 1 -> <<"A">>
    [] i % 4 = 2 -> <<"b">>
    [] i % 4 = 3 -> <<"a", "b">>
    [] OTHER -> <<"b", "a">>

StatusOf(v, i) ==
  CASE (i + v) % 3 = 1 -> "Stopped"
    [] (i + v) % 3 = 2 -> "Downloading"
    [] OTHER -> "Seeding"

Torrent(v, i) == [id |-> i, name |-> NameOf(i), status |-> StatusOf(v, i)]

RECURSIVE ListOf(_, _, _)
\* the torrents of id set S, ids from i upwards, in server (id) order
ListOf(S, v, i) ==
  IF i > MaxId THEN <<>>
  ELSE IF i \in S THEN <<Torrent(v, i)>> \o ListOf(S, v, i + 1)
  ELSE ListOf(S, v, i + 1)

PollLists == {ListOf(S, v, 1) : S \in SUBSET Ids, v \in Variants}

\* ------------------------------------------------------------ fuzzy match
Lower(c) == IF c = "A" THEN "a" ELSE IF c = "B" THEN "b" ELSE c

RECURSIVE IsSubseq(_, _)
IsSubseq(p, s) ==
  IF p = <<>> THEN TRUE
  ELSE IF s = <<>> THEN FALSE
  ELSE IF Lower(p[1]) = Lower(s[1]) THEN IsSubseq(Tail(p), Tail(s))
  ELSE IsSubseq(p, Tail(s))

fuzzy_match(name, pattern) == IsSubseq(pattern, name)

RECURSIVE FilterRows(_, _)
FilterRows(rs, pattern) ==
  IF rs = <<>> THEN <<>>
  ELSE IF fuzzy_match(rs[1].name, pattern)
       THEN <<rs[1]>> \o FilterRows(Tail(rs), pattern)
       ELSE FilterRows(Tail(rs), pattern)

\* RustmissionTorrent::to_row applied over the rows: the rows that are drawn
to_rows(rs, flt) == IF flt # None THEN FilterRows(rs, flt[1]) ELSE rs

VARIABLES
  rows,              \* TableManager.rows
  published,         \* history: the last list handed to set_new_rows
  filter,            \* TableManager.filter: Option<String>
  selected,          \* GenericTable.state.selected(): Option<usize>
  table_len,         \* GenericTable: the length set by overwrite_len
  stats,             \* StatsComponent.stats: Option<SessionStats>
  statistics_popup,  \* TorrentsTab.statistics_popup
  error_popup,       \* Pipup.error_popup
  help_popup,        \* Pipup.help_popup
  task,              \* TaskManager: the Add-Magnet bar, when open
  ret,               \* value returned by the last handler
  torrent_tx,        \* torrent actions sent by the last step
  update_tx,         \* update actions (TaskSet) sent by the last step
  action_tx,         \* actions (Render) sent by the last step
  last,              \* the last step: operation, action and receiver
  error_before,      \* history: Pipup.error_popup before the last step
  pc,                \* where the render/input loop and the torrent poller are
  held               \* the owner of each mutex, "-" when it is free

tableVars == <<rows, published, filter, selected, table_len>>

popupVars == <<stats, statistics_popup, error_popup, help_popup>>

outVars == <<ret, torrent_tx, update_tx, action_tx, last, error_before>>

lockVars == <<pc, held>>

vars == <<tableVars, popupVars, task, outVars, lockVars>>

\* --------------------------------------------------- GenericTable (cursor)
\* The selection controller of the table: overwrite_len re-clamps the cursor
\* against the new length; next and previous saturate at the boundary.
overwrite_len(sel, n) ==
  IF n = 0 THEN None
  ELSE IF sel = None THEN Some(0)
  ELSE IF sel[1] >= n THEN Some(n - 1)
  ELSE sel

next(sel, n) ==
  IF n = 0 \/ sel = None THEN sel
  ELSE IF sel[1] >= n - 1 THEN Some(n - 1)
  ELSE Some(sel[1] + 1)

previous(sel, n) ==
  IF n = 0 \/ sel = None THEN sel
  ELSE IF sel[1] = 0 THEN Some(0)
  ELSE Some(sel[1] - 1)

\* mutant: an index past the end yields the last element
get_Saturating(rs, index) ==
  IF rs = <<>> THEN None
  ELSE IF index < Len(rs) THEN Some(rs[index + 1])
  ELSE Some(rs[Len(rs)])

\* Vec::get on a 0-based index
get(rs, index) == IF index < Len(rs) THEN Some(rs[index + 1]) ELSE None

\* ----------------------------------------------------------- TableManager
\* mutant: the cursor is resolved in the stored rows, the filter is ignored
get_current_item_Unfiltered(sel, flt, rs) ==
  IF sel = None THEN None ELSE get(rs, sel[1])

get_current_item(sel, flt, rs) ==
  IF sel = None THEN None
  ELSE IF flt # None THEN get(FilterRows(rs, flt[1]), sel[1])
  ELSE get(rs, sel[1])

\* set_new_rows that hands the matches back best score first (here: reversed)
set_new_rows_ScoreOrder(flt, new) ==
  IF flt # None
  THEN LET m == FilterRows(new, flt[1]) IN [i \in 1..Len(m) |-> m[Len(m) + 1 - i]]
  ELSE new

set_new_rows(flt, new) ==
  IF flt # None THEN FilterRows(new, flt[1]) ELSE new

\* ------------------------------------------------------- step bookkeeping
NoAction == Act("-")

Step(op, action, receiver, signal) ==
  [op |-> op, action |-> action, receiver |-> receiver, signal |-> signal]

IsDispatch(l) == l.op = "Dispatch"

Out(r, tt, ut, at, l) ==
  /\ ret' = r
  /\ torrent_tx' = tt
  /\ update_tx' = ut
  /\ action_tx' = at
  /\ last' = l
  /\ error_before' = error_popup

\* a handler taken as one step: the mutexes it locks are free before and
\* after it
Emit(r, tt, ut, at, l) ==
  /\ Out(r, tt, ut, at, l)
  /\ UNCHANGED lockVars

\* ------------------------------------------------------------ Init
Init ==
  /\ rows = <<>>
  /\ published = <<>>
  /\ filter = None
  /\ selected = None
  /\ table_len = 0
  /\ stats = None
  /\ statistics_popup = None
  /\ error_popup = None
  /\ help_popup = None
  /\ task = None
  /\ ret = None
  /\ torrent_tx = <<>>
  /\ update_tx = <<>>
  /\ action_tx = <<>>
  /\ last = Step("Init", NoAction, "-", "-")
  /\ error_before = None
  /\ pc = [ui |-> "idle", poller |-> "sleep"]
  /\ held = [table_manager |-> "-", table |-> "-", filter |-> "-"]

\* ------------------------------------------------------------ pollers
\* transmission::torrent_fetch, one tick that succeeds with the list new
TorrentFetchOk(new) ==
  /\ rows' = set_new_rows(filter, new)
  /\ published' = new
  /\ UNCHANGED <<filter, selected, table_len, popupVars, task>>
  /\ Emit(None, <<>>, <<>>, <<"Render">>, Step("TorrentFetchOk", NoAction, "-", "-"))

\* mutant: a failed tick publishes an empty list
TorrentFetchFail_ClearsRows ==
  /\ rows' = <<>>
  /\ published' = <<>>
  /\ UNCHANGED <<filter, selected, table_len, popupVars, task>>
  /\ Emit(None, <<>>, <<>>, <<>>, Step("TorrentFetchFail", NoAction, "-", "-"))

\* one tick whose RPC call fails
TorrentFetchFail ==
  /\ UNCHANGED <<tableVars, popupVars, task>>
  /\ Emit(None, <<>>, <<>>, <<>>, Step("TorrentFetchFail", NoAction, "-", "-"))

\* transmission::stats_fetch, one tick that succeeds with the stats s
StatsFetchOk(s) ==
  /\ stats' = Some(s)
  /\ UNCHANGED <<tableVars, statistics_popup, error_popup, help_popup, task>>
  /\ Emit(None, <<>>, <<>>, <<"Render">>, Step("StatsFetchOk", NoAction, "-", "-"))

StatsFetchFail ==
  /\ UNCHANGED <<tableVars, popupVars, task>>
  /\ Emit(None, <<>>, <<>>, <<>>, Step("StatsFetchFail", NoAction, "-", "-"))

\* ------------------------------------------------------------ render
\* TorrentsTab::render: the rows that pass to_row are drawn and their number
\* is handed to the table
Render ==
  /\ LET torrent_rows == to_rows(rows, filter) IN
       /\ selected' = overwrite_len(selected, Len(torrent_rows))
       /\ table_len' = Len(torrent_rows)
  /\ UNCHANGED <<rows, published, filter, popupVars, task>>
  /\ Emit(None, <<>>, <<>>, <<>>, Step("Render", NoAction, "-", "-"))

\* ------------------------------------------------------------ InputManager
\* handle_key: a character is inserted at the end, Backspace deletes the last
\* character; some is FALSE when the key changed nothing
handle_key(text, key) ==
  IF key \in Chars THEN [text |-> Append(text, key), some |-> TRUE]
  ELSE IF key = "Backspace" /\ text # <<>>
       THEN [text |-> SubSeq(text, 1, Len(text) - 1), some |-> TRUE]
  ELSE [text |-> text, some |-> FALSE]

\* ------------------------------------------------------------ AddMagnetBar
\* mutant: the directory field starts empty
AddMagnetBar_new_NoPrefill ==
  [stage |-> "AskMagnet", magnet |-> <<>>, location |-> <<>>]

AddMagnetBar_new ==
  [stage |-> "AskMagnet", magnet |-> <<>>, location |-> DownloadDir]

TorrentAction_Add(source, dir) == [kind |-> "Add", source |-> source, dir |-> dir]

TorrentAction_Start(ids) == [kind |-> "Start", ids |-> ids]

TorrentAction_Stop(ids) == [kind |-> "Stop", ids |-> ids]

StatusTask_new_add(what) == [kind |-> "Add", what |-> what]

\* what one call of the bar yields: its new state, what it sent, what it signals
Outcome(w, tt, ut, at, signal) ==
  [w |-> w, torrent |-> tt, update |-> ut, action |-> at, signal |-> signal]

\* mutant: Esc in the first stage is swallowed
handle_magnet_input_EscStays(w, key) ==
  IF key = "Enter"
    THEN Outcome([w EXCEPT !.stage = "AskLocation"], <<>>, <<>>, <<"Render">>, "Nothing")
  ELSE IF key = "Esc"
    THEN Outcome(w, <<>>, <<>>, <<>>, "Nothing")
  ELSE LET k == handle_key(w.magnet, key) IN
    Outcome([w EXCEPT !.magnet = k.text], <<>>, <<>>,
            IF k.some THEN <<"Render">> ELSE <<>>, "Nothing")

handle_magnet_input(w, key) ==
  IF key = "Enter"
    THEN Outcome([w EXCEPT !.stage = "AskLocation"], <<>>, <<>>, <<"Render">>, "Nothing")
  ELSE IF key = "Esc"
    THEN Outcome(w, <<>>, <<>>, <<>>, "Quit")
  ELSE LET k == handle_key(w.magnet, key) IN
    Outcome([w EXCEPT !.magnet = k.text], <<>>, <<>>,
            IF k.some THEN <<"Render">> ELSE <<>>, "Nothing")

\* mutant: the two texts are swapped in the Add
handle_location_input_Swapped(w, key) ==
  IF key = "Enter"
    THEN Outcome(w, <<TorrentAction_Add(w.location, Some(w.magnet))>>,
                 <<StatusTask_new_add(w.magnet)>>, <<>>, "Quit")
  ELSE IF key = "Esc"
    THEN Outcome(w, <<>>, <<>>, <<>>, "Quit")
  ELSE LET k == handle_key(w.location, key) IN
    Outcome([w EXCEPT !.location = k.text], <<>>, <<>>,
            IF k.some THEN <<"Render">> ELSE <<>>, "Nothing")

handle_location_input(w, key) ==
  IF key = "Enter"
    THEN Outcome(w, <<TorrentAction_Add(w.magnet, Some(w.location))>>,
                 <<StatusTask_new_add(w.magnet)>>, <<>>, "Quit")
  ELSE IF key = "Esc"
    THEN Outcome(w, <<>>, <<>>, <<>>, "Quit")
  ELSE LET k == handle_key(w.location, key) IN
    Outcome([w EXCEPT !.location = k.text], <<>>, <<>>,
            IF k.some THEN <<"Render">> ELSE <<>>, "Nothing")

\* mutant: each stage hands the key to the handler of the other stage
handle_input_Crossed(w, key) ==
  IF w.stage = "AskMagnet" THEN handle_location_input(w, key)
  ELSE handle_magnet_input(w, key)

handle_input(w, key) ==
  IF w.stage = "AskMagnet" THEN handle_magnet_input(w, key)
  ELSE handle_location_input(w, key)

\* mutant: an action that is not a key sends the bar back to its first stage
AddMagnetBar_handle_actions_Restarts(w, action) ==
  IF action.kind = "Input" THEN handle_input(w, action.arg)
  ELSE Outcome([w EXCEPT !.stage = "AskMagnet"], <<>>, <<>>, <<>>, "Nothing")

AddMagnetBar_handle_actions(w, action) ==
  IF action.kind = "Input" THEN handle_input(w, action.arg)
  ELSE Outcome(w, <<>>, <<>>, <<>>, "Nothing")

\* ------------------------------------------------------------ TaskManager
\* AddMagnet opens a fresh bar; every action goes to the open bar, which is
\* dropped when it signals Quit
TaskManager_handle_actions(action) ==
  IF task = None
    THEN IF action.kind = "AddMagnet"
      THEN /\ task' = Some(AddMagnetBar_new)
           /\ Emit(Some("Render"), <<>>, <<>>, <<>>, Step("Dispatch", action, "task", "-"))
      ELSE /\ UNCHANGED task
           /\ Emit(None, <<>>, <<>>, <<>>, Step("Dispatch", action, "task", "-"))
    ELSE LET o == AddMagnetBar_handle_actions(task[1], action) IN
      /\ task' = IF o.signal = "Quit" THEN None ELSE Some(o.w)
      /\ Emit(IF o.signal = "Quit" THEN Some("Render") ELSE None,
              o.torrent, o.update, o.action,
              Step("Dispatch", action, "wizard", o.signal))

\* ------------------------------------------------------------ popups
\* mutant: Quit dismisses the error popup as well
ErrorPopup_handle_events_QuitToo(action) ==
  IF action.kind \in {"Confirm", "Quit"} THEN Some("Quit") ELSE None

ErrorPopup_handle_events(action) ==
  IF action.kind = "Confirm" THEN Some("Quit") ELSE None

HelpPopup_handle_actions(action) ==
  IF action.kind \in {"Quit", "Confirm"} THEN Some("Quit") ELSE None

StatisticsPopup_handle_actions(action) ==
  IF action.kind \in {"Quit", "Confirm"} THEN Some("Quit") ELSE None

\* mutant: the help popup is forgotten
needs_action_ErrorOnly == error_popup # None

needs_action == error_popup # None \/ help_popup # None

\* mutant: dismissing the error popup drops the help popup with it
Pipup_handle_events_DropsHelp(action) ==
  IF error_popup # None
    THEN /\ error_popup' = IF ErrorPopup_handle_events(action) = Some("Quit")
                           THEN None ELSE error_popup
         /\ help_popup' = IF ErrorPopup_handle_events(action) = Some("Quit")
                          THEN None ELSE help_popup
         /\ UNCHANGED <<tableVars, stats, statistics_popup, task>>
         /\ Emit(None, <<>>, <<>>, <<>>, Step("Dispatch", action, "error", "-"))
  ELSE IF help_popup # None
    THEN /\ UNCHANGED <<tableVars, popupVars, task>>
         /\ Emit(HelpPopup_handle_actions(action), <<>>, <<>>, <<>>,
                 Step("Dispatch", action, "help", "-"))
  ELSE /\ UNCHANGED <<tableVars, popupVars, task>>
       /\ Emit(None, <<>>, <<>>, <<>>, Step("Dispatch", action, "-", "-"))

Pipup_handle_events(action) ==
  IF error_popup # None
    THEN /\ error_popup' = IF ErrorPopup_handle_events(action) = Some("Quit")
                           THEN None ELSE error_popup
         /\ UNCHANGED <<tableVars, stats, statistics_popup, help_popup, task>>
         /\ Emit(None, <<>>, <<>>, <<>>, Step("Dispatch", action, "error", "-"))
  ELSE IF help_popup # None
    THEN /\ UNCHANGED <<tableVars, popupVars, task>>
         /\ Emit(HelpPopup_handle_actions(action), <<>>, <<>>, <<>>,
                 Step("Dispatch", action, "help", "-"))
  ELSE /\ UNCHANGED <<tableVars, popupVars, task>>
       /\ Emit(None, <<>>, <<>>, <<>>, Step("Dispatch", action, "-", "-"))

\* ------------------------------------------------------------ TorrentsTab
PauseActions(sel, flt, rs) ==
  LET item == get_current_item(sel, flt, rs) IN
    IF item # None
      THEN IF item[1].status = "Stopped"
             THEN <<TorrentAction_Start({item[1].id})>>
             ELSE <<TorrentAction_Stop({item[1].id})>>
      ELSE <<>>

TorrentsTab_handle_actions(action) ==
  IF statistics_popup # None
    THEN /\ IF StatisticsPopup_handle_actions(action) = Some("Quit")
              THEN /\ statistics_popup' = None
                   /\ Emit(Some("Render"), <<>>, <<>>, <<>>, Step("Dispatch", action, "stats", "-"))
              ELSE /\ UNCHANGED statistics_popup
                   /\ Emit(None, <<>>, <<>>, <<>>, Step("Dispatch", action, "stats", "-"))
         /\ UNCHANGED <<tableVars, stats, error_popup, help_popup, task>>
  ELSE IF action.kind = "Up"
    THEN /\ selected' = previous(selected, table_len)
         /\ UNCHANGED <<rows, published, filter, table_len, popupVars, task>>
         /\ Emit(Some("Render"), <<>>, <<>>, <<>>, Step("Dispatch", action, "torrents", "-"))
  ELSE IF action.kind = "Down"
    THEN /\ selected' = next(selected, table_len)
         /\ UNCHANGED <<rows, published, filter, table_len, popupVars, task>>
         /\ Emit(Some("Render"), <<>>, <<>>, <<>>, Step("Dispatch", action, "torrents", "-"))
  ELSE IF action.kind = "ShowStats"
    THEN /\ statistics_popup' = IF stats # None THEN Some(stats[1]) ELSE statistics_popup
         /\ UNCHANGED <<tableVars, stats, error_popup, help_popup, task>>
         /\ Emit(IF stats # None THEN Some("Render") ELSE None, <<>>, <<>>, <<>>,
                 Step("Dispatch", action, "torrents", "-"))
  ELSE IF action.kind = "Pause"
    THEN /\ UNCHANGED <<tableVars, popupVars, task>>
         /\ Emit(None, PauseActions(selected, filter, rows), <<>>, <<>>,
                 Step("Dispatch", action, "torrents", "-"))
  ELSE /\ TaskManager_handle_actions(action)
       /\ UNCHANGED <<tableVars, popupVars>>

\* ------------------------------------------------------------ MainWindow
\* mutant: an error that arrives while another is shown is dropped
MainWindow_handle_events_KeepsFirst(action) ==
  IF action.kind = "Error"
    THEN /\ error_popup' = IF error_popup = None THEN Some(action.arg) ELSE error_popup
         /\ UNCHANGED <<tableVars, stats, statistics_popup, help_popup, task>>
         /\ Emit(None, <<>>, <<>>, <<>>, Step("Dispatch", action, "main", "-"))
  ELSE IF needs_action THEN Pipup_handle_events(action)
  ELSE TorrentsTab_handle_actions(action)

MainWindow_handle_events(action) ==
  IF action.kind = "Error"
    THEN /\ error_popup' = Some(action.arg)
         /\ UNCHANGED <<tableVars, stats, statistics_popup, help_popup, task>>
         /\ Emit(None, <<>>, <<>>, <<>>, Step("Dispatch", action, "main", "-"))
  ELSE IF needs_action THEN Pipup_handle_events(action)
  ELSE TorrentsTab_handle_actions(action)

\* ------------------------------------------------------------ environment
\* no overlay is active and no bar is open: the base view owns the keyboard
BaseOwnsInput ==
  /\ ~needs_action
  /\ statistics_popup = None
  /\ task = None

\* a character key fits the text field it would be typed into
TextRoom(action) ==
  IF action.kind = "Input" /\ action.arg \in Chars /\ task # None
    THEN Len(IF task[1].stage = "AskMagnet" THEN task[1].magnet
             ELSE task[1].location) < MaxText
    ELSE TRUE

Dispatch(action) ==
  /\ TextRoom(action)
  /\ MainWindow_handle_events(action)

\* the help popup is put up
ShowHelp ==
  /\ BaseOwnsInput
  /\ help_popup' = Some("HelpPopup")
  /\ UNCHANGED <<tableVars, stats, statistics_popup, error_popup, task>>
  /\ Emit(Some("Render"), <<>>, <<>>, <<>>, Step("ShowHelp", NoAction, "-", "-"))

\* the filter bar commits a pattern, or clears it
SetFilter(p) ==
  /\ BaseOwnsInput
  /\ filter' = Some(p)
  /\ UNCHANGED <<rows, published, selected, table_len, popupVars, task>>
  /\ Emit(Some("Render"), <<>>, <<>>, <<>>, Step("SetFilter", NoAction, "-", "-"))

ClearFilter ==
  /\ BaseOwnsInput
  /\ filter # None
  /\ filter' = None
  /\ UNCHANGED <<rows, published, selected, table_len, popupVars, task>>
  /\ Emit(Some("Render"), <<>>, <<>>, <<>>, Step("ClearFilter", NoAction, "-", "-"))

\* ------------------------------------------------------------ specification
\* the intents of the torrents table, and the error popup above it
TableActions ==
  {a \in Actions : a.kind \in {"Up", "Down", "Pause", "Confirm", "Error"}}

Next ==
  \/ \E new \in PollLists : TorrentFetchOk(new)
  \/ TorrentFetchFail
  \/ \E s \in StatsValues : StatsFetchOk(s)
  \/ StatsFetchFail
  \/ Render
  \/ \E action \in TableActions : Dispatch(action)
  \/ \E p \in Patterns : SetFilter(p)
  \/ ClearFilter

Spec == Init /\ [][Next]_vars

\* the popups and the Add-Magnet bar over a daemon whose torrent list is fixed
FixedList == ListOf(Ids, 0, 1)

NextPopups ==
  \/ TorrentFetchOk(FixedList)
  \/ TorrentFetchFail
  \/ \E s \in StatsValues : StatsFetchOk(s)
  \/ StatsFetchFail
  \/ Render
  \/ \E action \in Actions : Dispatch(action)
  \/ ShowHelp

SpecPopups == Init /\ [][NextPopups]_vars

\* ------------------------------------------------------------ RPC outcome
StatusTask_failed(t) == [kind |-> t.kind, what |-> t.what, state |-> "Failed"]

\* The RPC call of the torrent action that was just sent fails. The status
\* task registered together with the command is moved to Failed; whether an
\* Error action is sent as well is left open.
CommandFailed(popup) ==
  /\ IsDispatch(last)
  /\ torrent_tx # <<>>
  /\ ret' = None
  /\ torrent_tx' = <<>>
  /\ update_tx' = IF update_tx # <<>> THEN <<StatusTask_failed(update_tx[1])>> ELSE <<>>
  /\ action_tx' = IF popup THEN <<"Error">> ELSE <<>>
  /\ last' = Step("CommandFailed", NoAction, "-", "-")
  /\ error_before' = error_popup
  /\ UNCHANGED <<tableVars, popupVars, task, lockVars>>

\* the popups, the bar and the torrents view, with commands that fail
NextCommands ==
  \/ NextPopups
  \/ \E popup \in BOOLEAN : CommandFailed(popup)

SpecCommands == Init /\ [][NextCommands]_vars

\* the Add-Magnet bar with typing, over an empty torrent list
NextWizard ==
  \/ \E action \in Actions : Dispatch(action)
  \/ ShowHelp

SpecWizard == Init /\ [][NextWizard]_vars

\* ------------------------------------------------------------ mutexes
\* The same render, publish, Up, Down and Pause, one step per lock and unlock.
\* The render/input loop is thread "ui", transmission::torrent_fetch is
\* "poller". A thread that is to lock a held mutex waits: its step is not
\* enabled.
Goto(t, loc) == pc' = [pc EXCEPT ![t] = loc]

LockStep(op) == Out(None, <<>>, <<>>, <<>>, Step(op, NoAction, "-", "-"))

Lock(m, t) ==
  /\ held[m] = "-"
  /\ held' = [held EXCEPT ![m] = t]

Unlock(m) == held' = [held EXCEPT ![m] = "-"]

\* render: self.table_manager.lock(), held until render returns
RenderLock ==
  /\ pc.ui = "idle"
  /\ Lock("table_manager", "ui")
  /\ Goto("ui", "render_rows")
  /\ UNCHANGED <<tableVars, popupVars, task>>
  /\ LockStep("RenderLock")

\* to_row(torrent, &table_manager.filter.lock())
RenderFilterLock ==
  /\ pc.ui = "render_rows"
  /\ Lock("filter", "ui")
  /\ Goto("ui", "render_row")
  /\ UNCHANGED <<tableVars, popupVars, task>>
  /\ LockStep("RenderFilterLock")

\* torrent_rows is collected, the filter guard is dropped
RenderRows ==
  /\ pc.ui = "render_row"
  /\ Unlock("filter")
  /\ Goto("ui", "render_len")
  /\ UNCHANGED <<tableVars, popupVars, task>>
  /\ LockStep("RenderRows")

\* table_manager.table.lock()
RenderTableLock ==
  /\ pc.ui = "render_len"
  /\ Lock("table", "ui")
  /\ Goto("ui", "render_overwrite")
  /\ UNCHANGED <<tableVars, popupVars, task>>
  /\ LockStep("RenderTableLock")

\* .overwrite_len(torrent_rows.len()), the guard is dropped with the statement
RenderOverwriteLen ==
  /\ pc.ui = "render_overwrite"
  /\ LET torrent_rows == to_rows(rows, filter) IN
       /\ selected' = overwrite_len(selected, Len(torrent_rows))
       /\ table_len' = Len(torrent_rows)
  /\ Unlock("table")
  /\ Goto("ui", "render_table")
  /\ UNCHANGED <<rows, published, filter, popupVars, task>>
  /\ LockStep("RenderOverwriteLen")

\* render_stateful_widget(.., &mut table.lock().state): the table is drawn
\* with the table mutex held
RenderDrawBegin ==
  /\ pc.ui = "render_table"
  /\ Lock("table", "ui")
  /\ Goto("ui", "drawing")
  /\ UNCHANGED <<tableVars, popupVars, task>>
  /\ LockStep("RenderDrawBegin")

RenderDrawEnd ==
  /\ pc.ui = "drawing"
  /\ Unlock("table")
  /\ Goto("ui", "render_rest")
  /\ UNCHANGED <<tableVars, popupVars, task>>
  /\ LockStep("RenderDrawEnd")

\* stats, task and popup are drawn, then render returns and the guard drops
RenderUnlock ==
  /\ pc.ui = "render_rest"
  /\ Unlock("table_manager")
  /\ Goto("ui", "idle")
  /\ UNCHANGED <<tableVars, popupVars, task>>
  /\ LockStep("Render")

\* Up, Down: self.table_manager.lock()
MoveLock(action) ==
  /\ pc.ui = "idle"
  /\ Lock("table_manager", "ui")
  /\ Goto("ui", IF action.kind = "Up" THEN "up_table" ELSE "down_table")
  /\ UNCHANGED <<tableVars, popupVars, task>>
  /\ LockStep("MoveLock")

\* .table.lock()
MoveTableLock ==
  /\ pc.ui \in {"up_table", "down_table"}
  /\ Lock("table", "ui")
  /\ Goto("ui", IF pc.ui = "up_table" THEN "up_move" ELSE "down_move")
  /\ UNCHANGED <<tableVars, popupVars, task>>
  /\ LockStep("MoveTableLock")

\* .previous() or .next(); both guards are dropped with the statement
Move ==
  /\ pc.ui \in {"up_move", "down_move"}
  /\ selected' = IF pc.ui = "up_move" THEN previous(selected, table_len)
                 ELSE next(selected, table_len)
  /\ held' = [held EXCEPT !.table = "-", !.table_manager = "-"]
  /\ Goto("ui", "idle")
  /\ UNCHANGED <<rows, published, filter, table_len, popupVars, task>>
  /\ Out(Some("Render"), <<>>, <<>>, <<>>,
         Step("Move", Act(IF pc.ui = "up_move" THEN "Up" ELSE "Down"), "torrents", "-"))

\* Pause: self.table_manager.lock(), held until the arm ends
PauseLock ==
  /\ pc.ui = "idle"
  /\ Lock("table_manager", "ui")
  /\ Goto("ui", "pause_index")
  /\ UNCHANGED <<tableVars, popupVars, task>>
  /\ LockStep("PauseLock")

\* get_current_item: self.table.lock()
PauseTableLock ==
  /\ pc.ui = "pause_index"
  /\ Lock("table", "ui")
  /\ Goto("ui", "pause_selected")
  /\ UNCHANGED <<tableVars, popupVars, task>>
  /\ LockStep("PauseTableLock")

\* .state.borrow().selected(): without a selection get_current_item returns
\* None; the table guard is dropped at the end of the block
PauseIndex ==
  /\ pc.ui = "pause_selected"
  /\ Unlock("table")
  /\ Goto("ui", IF selected = None THEN "pause_end" ELSE "pause_item")
  /\ UNCHANGED <<tableVars, popupVars, task>>
  /\ LockStep("PauseIndex")

\* get_current_item: self.filter.lock()
PauseFilterLock ==
  /\ pc.ui = "pause_item"
  /\ Lock("filter", "ui")
  /\ Goto("ui", "pause_filtered")
  /\ UNCHANGED <<tableVars, popupVars, task>>
  /\ LockStep("PauseFilterLock")

\* the item is resolved, the filter guard is dropped on return and the
\* torrent action is sent
PauseSend ==
  /\ pc.ui = "pause_filtered"
  /\ Unlock("filter")
  /\ Goto("ui", "pause_end")
  /\ UNCHANGED <<tableVars, popupVars, task>>
  /\ Out(None, PauseActions(selected, filter, rows), <<>>, <<>>,
         Step("PauseSend", Act("Pause"), "torrents", "-"))

PauseUnlock ==
  /\ pc.ui = "pause_end"
  /\ Unlock("table_manager")
  /\ Goto("ui", "idle")
  /\ UNCHANGED <<tableVars, popupVars, task>>
  /\ LockStep("PauseUnlock")

\* torrent_fetch: the RPC call is made
FetchCall ==
  /\ pc.poller = "sleep"
  /\ Goto("poller", "rpc")
  /\ UNCHANGED <<tableVars, popupVars, task, held>>
  /\ LockStep("FetchCall")

\* the call fails: the tick ends
FetchFailed ==
  /\ pc.poller = "rpc"
  /\ Goto("poller", "sleep")
  /\ UNCHANGED <<tableVars, popupVars, task, held>>
  /\ LockStep("TorrentFetchFail")

\* the call returned: table_manager.lock()
\* (mutant: the poller locks the filter before it locks table_manager)
FetchLock_FilterFirst ==
  /\ pc.poller = "rpc"
  /\ Lock("filter", "poller")
  /\ Goto("poller", "rpc")
  /\ UNCHANGED <<tableVars, popupVars, task>>
  /\ LockStep("FetchLock")

FetchLock ==
  /\ pc.poller = "rpc"
  /\ Lock("table_manager", "poller")
  /\ Goto("poller", "publish")
  /\ UNCHANGED <<tableVars, popupVars, task>>
  /\ LockStep("FetchLock")

\* set_new_rows: self.filter.lock()
FetchFilterLock ==
  /\ pc.poller = "publish"
  /\ Lock("filter", "poller")
  /\ Goto("poller", "set_rows")
  /\ UNCHANGED <<tableVars, popupVars, task>>
  /\ LockStep("FetchFilterLock")

\* set_new_rows(new): the rows are filtered and stored, the filter guard drops
FetchSetRows(new) ==
  /\ pc.poller = "set_rows"
  /\ rows' = set_new_rows(filter, new)
  /\ published' = new
  /\ Unlock("filter")
  /\ Goto("poller", "published")
  /\ UNCHANGED <<filter, selected, table_len, popupVars, task>>
  /\ LockStep("FetchSetRows")

FetchUnlock ==
  /\ pc.poller = "published"
  /\ Unlock("table_manager")
  /\ Goto("poller", "sleep")
  /\ UNCHANGED <<tableVars, popupVars, task>>
  /\ Out(None, <<>>, <<>>, <<"Render">>, Step("TorrentFetchOk", NoAction, "-", "-"))

\* the mutex a thread locks next, "-" when its next step locks none
Wants(t) ==
  IF t = "ui"
    THEN IF pc.ui \in {"render_rows", "pause_item"} THEN "filter"
         ELSE IF pc.ui \in {"render_len", "render_table", "pause_index",
                            "up_table", "down_table"} THEN "table"
         ELSE "-"
  ELSE IF pc.poller = "rpc" THEN "table_manager"
  ELSE IF pc.poller = "publish" THEN "filter"
  ELSE "-"

\* a handler of the render/input loop that is taken as one step
WhenIdle(A) ==
  /\ pc.ui = "idle"
  /\ held.table_manager = "-"
  /\ A

MoveActions == {Act("Up"), Act("Down")}

NextLocks ==
  \/ RenderLock
  \/ RenderFilterLock
  \/ RenderRows
  \/ RenderTableLock
  \/ RenderOverwriteLen
  \/ RenderDrawBegin
  \/ RenderDrawEnd
  \/ RenderUnlock
  \/ \E action \in MoveActions : MoveLock(action)
  \/ MoveTableLock
  \/ Move
  \/ PauseLock
  \/ PauseTableLock
  \/ PauseIndex
  \/ PauseFilterLock
  \/ PauseSend
  \/ PauseUnlock
  \/ FetchCall
  \/ FetchFailed
  \/ FetchLock
  \/ FetchFilterLock
  \/ \E new \in PollLists : FetchSetRows(new)
  \/ FetchUnlock
  \/ \E p \in Patterns : WhenIdle(SetFilter(p))
  \/ WhenIdle(ClearFilter)

SpecLocks == Init /\ [][NextLocks]_vars

\* ============================================================ properties
\* the view the user is shown: the stored rows under the current filter
FilteredView == IF filter = None THEN rows ELSE FilterRows(rows, filter[1])

OverlayActive == error_popup # None \/ help_popup # None \/ statistics_popup # None

\* C1: the cursor is None whenever the filtered view is empty and an index of
\* the filtered view whenever it is not, in every reachable state.
C1_SelectionBound ==
  IF Len(FilteredView) = 0 THEN selected = None
  ELSE selected # None /\ selected[1] \in 0..(Len(FilteredView) - 1)

\* C2: whenever no filter is set, the view is the full list the poller last
\* published, so setting and clearing a filter restores the unfiltered view
\* even when a poll published rows in between.
C2_FilterPurity == filter = None => FilteredView = published
\* C3: an input event dispatched while the error popup is up goes to the error
\* popup and leaves the help popup as it is; raising an error leaves the help
\* popup beneath it; once the error is gone and the help popup is still up,
\* the event goes to the help popup and not to the torrents view.
C3_OverlayPrecedence ==
  [][IsDispatch(last') =>
       /\ (last'.action.kind = "Error" =>
             error_popup' # None /\ help_popup' = help_popup)
       /\ (last'.action.kind # "Error" /\ error_popup # None =>
             /\ last'.receiver = "error"
             /\ help_popup' = help_popup
             /\ (last'.action.kind = "Confirm" => error_popup' = None))
       /\ (last'.action.kind # "Error" /\ error_popup = None /\ help_popup # None =>
             last'.receiver = "help")]_vars

\* the error raised above the help popup has just been dismissed with Confirm
C3_Witness ==
  /\ help_popup # None
  /\ error_popup = None
  /\ IsDispatch(last)
  /\ last.receiver = "error"
  /\ last.action.kind = "Confirm"

\* the bar receives the action: nothing above the torrents view, and the
\* torrents view does not take the action itself
ReachesBar(action) ==
  /\ ~OverlayActive
  /\ task # None
  /\ action.kind \notin {"Error", "Up", "Down", "ShowStats", "Pause"}

HasAdd(tx) == \E i \in DOMAIN tx : tx[i].kind = "Add"

\* C4: Enter in stage AskLocation sends exactly one Add(S, Some(D)) with the
\* texts of the two stages and one Add status task built from S, and the bar
\* signals Quit and is dropped; no other step sends an Add or a status task,
\* and S is not changed while the bar is in stage AskLocation.
C4_WizardRoundTrip ==
  [][IsDispatch(last') =>
       /\ IF ReachesBar(last'.action) /\ task[1].stage = "AskLocation"
             /\ last'.action = [kind |-> "Input", arg |-> "Enter"]
          THEN /\ torrent_tx' = <<TorrentAction_Add(task[1].magnet, Some(task[1].location))>>
               /\ update_tx' = <<StatusTask_new_add(task[1].magnet)>>
               /\ last'.signal = "Quit"
               /\ task' = None
          ELSE /\ ~HasAdd(torrent_tx')
               /\ update_tx' = <<>>
       /\ (task # None /\ task' # None /\ task[1].stage = "AskLocation" =>
             task'[1].magnet = task[1].magnet /\ task'[1].stage = "AskLocation")]_vars

\* source "d" was confirmed in stage 1, the directory was edited to "m" and
\* confirmed in stage 2
C4_Witness ==
  /\ last.signal = "Quit"
  /\ task = None
  /\ torrent_tx = <<TorrentAction_Add(<<"d">>, Some(<<"m">>))>>
  /\ update_tx = <<StatusTask_new_add(<<"d">>)>>

\* C5: Pause that reaches the torrents view with a current item sends exactly
\* one torrent action for the id of the item under the cursor in the filtered
\* view: Start when its status is Stopped, Stop otherwise.
C5_PauseToggling ==
  [][(IsDispatch(last') /\ last'.action.kind = "Pause" /\ ~OverlayActive
        /\ selected # None /\ selected[1] < Len(FilteredView)) =>
       LET item == FilteredView[selected[1] + 1] IN
         torrent_tx' = <<IF item.status = "Stopped"
                         THEN TorrentAction_Start({item.id})
                         ELSE TorrentAction_Stop({item.id})>>]_vars

\* Pause started a stopped torrent that is not the first of the stored rows
C5_Witness ==
  /\ last.action.kind = "Pause"
  /\ filter # None
  /\ Len(torrent_tx) = 1
  /\ torrent_tx[1].kind = "Start"
  /\ rows # <<>>
  /\ torrent_tx[1].ids # {rows[1].id}

\* the cursor the reclamp rule prescribes for a view of new_len items
Reclamped(sel, new_len) ==
  IF new_len = 0 THEN None
  ELSE IF sel # None /\ sel[1] >= new_len THEN Some(new_len - 1)
  ELSE sel

\* C6: a poll or a filter change that shrinks the filtered view leaves the
\* cursor re-clamped against the new length.
C6_ReclampOnShrink ==
  [][(last'.op \in {"TorrentFetchOk", "SetFilter", "ClearFilter"}
        /\ Len(FilteredView') < Len(FilteredView)) =>
       selected' = Reclamped(selected, Len(FilteredView'))]_vars

C8_WizardCancel ==
  [][(IsDispatch(last') /\ ReachesBar(last'.action)
        /\ last'.action = [kind |-> "Input", arg |-> "Esc"]) =>
       /\ last'.signal = "Quit"
       /\ task' = None
       /\ torrent_tx' = <<>>
       /\ update_tx' = <<>>]_vars

\* Esc has just closed the bar
C8_Witness ==
  /\ IsDispatch(last)
  /\ last.action = [kind |-> "Input", arg |-> "Esc"]
  /\ last.receiver = "wizard"
  /\ last.signal = "Quit"
  /\ task = None

\* C9 as stated: an active error popup is removed by Confirm and by Quit and
\* by nothing else, and takes every input event while it is up.
C9_ErrorDismissal_Original ==
  [][error_popup # None =>
       /\ (error_popup' = None <=>
             IsDispatch(last') /\ last'.action.kind \in {"Confirm", "Quit"})
       /\ (IsDispatch(last') /\ last'.action.kind # "Error" =>
             last'.receiver = "error")]_vars

\* C9 amended: an active error popup is removed by Confirm and by nothing
\* else (Quit leaves it up); while it is up it takes every input event, and
\* neither the popups beneath it nor the torrents view act on the event.
C9_ErrorDismissal ==
  [][error_popup # None =>
       /\ (error_popup' = None <=>
             IsDispatch(last') /\ last'.action.kind = "Confirm")
       /\ (IsDispatch(last') /\ last'.action.kind # "Error" =>
             /\ last'.receiver = "error"
             /\ UNCHANGED <<tableVars, stats, statistics_popup, help_popup, task>>
             /\ torrent_tx' = <<>>
             /\ update_tx' = <<>>)]_vars

\* an error raised above the statistics popup has just been dismissed
C9_Witness ==
  /\ error_popup = None
  /\ help_popup = None
  /\ statistics_popup # None
  /\ IsDispatch(last)
  /\ last.receiver = "error"
  /\ last.action.kind = "Confirm"

TopOverlay ==
  IF error_popup # None THEN "error"
  ELSE IF help_popup # None THEN "help"
  ELSE "stats"

\* C10: an event dispatched while a popup is up is handled by the top-most
\* popup only: the popups beneath it, the cursor, the rows, the filter and the
\* bar are unchanged and no torrent action or status task is sent; the
\* torrents view and the bar handle an event only when no popup is up.
C10_ExclusiveRouting ==
  [][IsDispatch(last') =>
       /\ (OverlayActive =>
             /\ last'.action.kind # "Error" => last'.receiver = TopOverlay
             /\ UNCHANGED <<tableVars, task, stats>>
             /\ torrent_tx' = <<>>
             /\ update_tx' = <<>>
             /\ (TopOverlay # "stats" => statistics_popup' = statistics_popup)
             /\ (TopOverlay = "error" => help_popup' = help_popup)
             /\ (statistics_popup = None => statistics_popup' = None))
       /\ (last'.receiver \in {"torrents", "task", "wizard"} => ~OverlayActive)]_vars

\* Pause went to the statistics popup although a torrent is under the cursor
C10_Witness ==
  /\ IsDispatch(last)
  /\ last.action.kind = "Pause"
  /\ last.receiver = "stats"
  /\ statistics_popup # None
  /\ selected # None
  /\ get_current_item(selected, filter, rows) # None

\* what the handler of the top-most popup answers to the action
TopAnswer(action) ==
  IF error_popup # None THEN ErrorPopup_handle_events(action)
  ELSE IF help_popup # None THEN HelpPopup_handle_actions(action)
  ELSE StatisticsPopup_handle_actions(action)

\* C11: when the top-most popup answers an event with Quit, that popup is
\* removed, a re-render is requested (the handler returns Render) and nothing
\* beneath the popup acts on the event: the other popups, the table and the
\* bar are unchanged and Quit is not handed on to the application.
C11_OverlayQuit ==
  [][(IsDispatch(last') /\ last'.action.kind # "Error" /\ OverlayActive
        /\ TopAnswer(last'.action) = Some("Quit")) =>
       /\ ret' = Some("Render")
       /\ (TopOverlay = "error" =>
             /\ error_popup' = None
             /\ UNCHANGED <<help_popup, statistics_popup>>)
       /\ (TopOverlay = "help" =>
             /\ help_popup' = None
             /\ UNCHANGED <<error_popup, statistics_popup>>)
       /\ (TopOverlay = "stats" =>
             /\ statistics_popup' = None
             /\ UNCHANGED <<error_popup, help_popup>>)
       /\ UNCHANGED <<tableVars, stats, task>>
       /\ torrent_tx' = <<>>
       /\ update_tx' = <<>>]_vars

\* C12: Enter in stage AskMagnet with an empty source text is rejected: the
\* bar stays as it is and raises no popup, and no Add with an empty source is
\* ever sent.
C12_WizardValidation ==
  [][IsDispatch(last') =>
       /\ (ReachesBar(last'.action) /\ task[1].stage = "AskMagnet"
             /\ task[1].magnet = <<>>
             /\ last'.action = [kind |-> "Input", arg |-> "Enter"] =>
             /\ task' = task
             /\ UNCHANGED popupVars
             /\ torrent_tx' = <<>>)
       /\ (\A i \in DOMAIN torrent_tx' :
             torrent_tx'[i].kind = "Add" => torrent_tx'[i].source # <<>>)]_vars

\* the cursor resolves to no row of the filtered view
NoCurrentItem == selected = None \/ selected[1] >= Len(FilteredView)

\* C13: Pause that reaches the torrents view with no current item does
\* nothing: no torrent action and no status task is sent, no popup is raised,
\* and the rows, the filter, the cursor and the bar are unchanged.
C13_EmptySelection ==
  [][(IsDispatch(last') /\ last'.action.kind = "Pause" /\ ~OverlayActive
        /\ NoCurrentItem) =>
       /\ torrent_tx' = <<>>
       /\ update_tx' = <<>>
       /\ ret' = None
       /\ UNCHANGED <<tableVars, popupVars, task>>]_vars

\* Pause was a no-op with the cursor past the end of a non-empty view
C13_Witness ==
  /\ IsDispatch(last)
  /\ last.action.kind = "Pause"
  /\ last.receiver = "torrents"
  /\ selected # None
  /\ FilteredView # <<>>
  /\ selected[1] >= Len(FilteredView)
  /\ torrent_tx = <<>>

\* C14: a mutating command that fails is reported: the failure step moves a
\* status task to Failed or sends the Error action that raises a popup.
C14_NoSilentFailure ==
  last.op = "CommandFailed" =>
    \/ \E i \in DOMAIN update_tx : update_tx[i].state = "Failed"
    \/ \E i \in DOMAIN action_tx : action_tx[i] = "Error"

\* C15: whenever Pause resolves the current item, the cursor has been
\* re-clamped against the filtered view as it is now: the table knows the
\* length of the view and the cursor is None over an empty view and an index
\* of the view otherwise.
C15_ReclampBeforeUse ==
  [][(IsDispatch(last') /\ last'.action.kind = "Pause" /\ ~OverlayActive) =>
       /\ table_len = Len(FilteredView)
       /\ (FilteredView = <<>> => selected = None)
       /\ (FilteredView # <<>> => selected # None /\ selected[1] < Len(FilteredView))]_vars

HoldsLock(t) == \E m \in DOMAIN held : held[m] = t

\* C16: no mutex is held by the render/input loop while the table is being
\* drawn, and none by the poller while its RPC call is in flight.
C16_CriticalSections ==
  /\ (pc.ui = "drawing" => ~HoldsLock("ui"))
  /\ (pc.poller = "rpc" => ~HoldsLock("poller"))

\* the positions of list whose row name matches the pattern
MatchingPositions(list, pattern) ==
  {j \in 1..Len(list) : fuzzy_match(list[j].name, pattern)}

\* view is list restricted to the matching positions, in ascending position
\* order; without a pattern view is list itself
ViewShape(list, flt, view) ==
  IF flt = None THEN view = list
  ELSE LET M == MatchingPositions(list, flt[1])
           rank(j) == Cardinality({k \in M : k <= j})
       IN /\ Len(view) = Cardinality(M)
          /\ \A j \in M : view[rank(j)] = list[j]

EnterKey == [kind |-> "Input", arg |-> "Enter"]

\* the step was a call of the open bar
BarStep == last'.op = "Dispatch" /\ last'.receiver = "wizard"

\* C18: a key other than Enter and Esc that the bar receives edits the text
\* of the active stage only: the bar stays open in the same stage, the other
\* text is unchanged, no torrent action and no status task is sent; an action
\* that is not a key leaves the bar as it is and sends nothing.
C18_WizardKeyForwarding ==
  [][ BarStep =>
        LET w == task[1]
            action == last'.action
        IN IF action.kind = "Input" /\ action.arg \notin {"Enter", "Esc"}
             THEN /\ task' # None
                  /\ task'[1].stage = w.stage
                  /\ IF w.stage = "AskMagnet"
                       THEN /\ task'[1].magnet = handle_key(w.magnet, action.arg).text
                            /\ task'[1].location = w.location
                       ELSE /\ task'[1].location = handle_key(w.location, action.arg).text
                            /\ task'[1].magnet = w.magnet
                  /\ torrent_tx' = <<>>
                  /\ update_tx' = <<>>
                  /\ ret' = None
           ELSE IF action.kind # "Input"
             THEN /\ task' = task
                  /\ torrent_tx' = <<>>
                  /\ update_tx' = <<>>
                  /\ action_tx' = <<>>
                  /\ ret' = None
           ELSE TRUE ]_vars

C18_Witness ==
  /\ last.op = "Dispatch"
  /\ last.receiver = "wizard"
  /\ last.action = [kind |-> "Input", arg |-> "m"]
  /\ task = Some([stage |-> "AskLocation", magnet |-> <<"m">>, location |-> <<"m">>])

\* C19: whenever the bar is opened it is in stage AskMagnet with an empty
\* magnet text and the download directory in the location text, whatever an
\* earlier bar held when it was completed or cancelled.
C19_FreshWizard ==
  [][ task = None /\ task' # None =>
        /\ last'.action.kind = "AddMagnet"
        /\ task'[1] = [stage |-> "AskMagnet", magnet |-> <<>>, location |-> DownloadDir] ]_vars

C19_Witness ==
  /\ last.op = "Dispatch"
  /\ last.action.kind = "AddMagnet"
  /\ last.receiver = "task"
  /\ task = Some([stage |-> "AskMagnet", magnet |-> <<>>, location |-> DownloadDir])

\* C20: an open bar never goes from AskLocation back to AskMagnet; the magnet
\* text is not changed in AskLocation nor by the Enter that leaves AskMagnet;
\* an Add is sent only by Enter in AskLocation and carries that magnet text.
C20_StageMonotonicity ==
  [][ /\ (task # None /\ task' # None =>
            /\ (task[1].stage = "AskLocation" =>
                  /\ task'[1].stage = "AskLocation"
                  /\ task'[1].magnet = task[1].magnet)
            /\ (task[1].stage = "AskMagnet" /\ task'[1].stage = "AskLocation" =>
                  /\ last'.action = EnterKey
                  /\ task'[1].magnet = task[1].magnet))
      /\ (HasAdd(torrent_tx') =>
            /\ task # None
            /\ task[1].stage = "AskLocation"
            /\ last'.action = EnterKey
            /\ \A i \in DOMAIN torrent_tx' :
                 /\ torrent_tx'[i].kind = "Add"
                 /\ torrent_tx'[i].source = task[1].magnet) ]_vars

C20_Witness ==
  /\ last.op = "Dispatch"
  /\ last.receiver = "wizard"
  /\ last.action = EnterKey
  /\ last.signal = "Nothing"
  /\ task # None
  /\ task[1].stage = "AskLocation"
  /\ task[1].magnet = <<"m">>

ErrorAction(e) == [kind |-> "Error", arg |-> e]

\* C21: there is one error slot. An Error action is taken in every state and
\* puts its error in the slot, over whatever the slot held, and touches
\* nothing else; Confirm then empties the slot; the error in the slot changes
\* only to the error an Error action has just carried, so a replaced error
\* does not come back.
C21_SingleErrorSlot ==
  [][ /\ \A e \in Errors : ENABLED Dispatch(ErrorAction(e))
      /\ (IsDispatch(last') /\ last'.action.kind = "Error" =>
            /\ error_popup' = Some(last'.action.arg)
            /\ ret' = None
            /\ UNCHANGED <<tableVars, stats, statistics_popup, help_popup, task>>)
      /\ (error_popup # None /\ IsDispatch(last') /\ last'.action.kind = "Confirm" =>
            error_popup' = None)
      /\ (error_popup' # None /\ error_popup' # error_popup =>
            /\ IsDispatch(last')
            /\ last'.action = ErrorAction(error_popup'[1])) ]_vars

\* the second error has just replaced the first, above the help popup
C21_Witness ==
  /\ IsDispatch(last)
  /\ last.action = ErrorAction("e2")
  /\ error_before = Some("e1")
  /\ error_popup = Some("e2")
  /\ help_popup # None

Threads == {"ui", "poller"}

\* t waits for a mutex that u holds
WaitsFor(t, u) == Wants(t) # "-" /\ held[Wants(t)] = u

\* C22: the table mutex and the filter mutex are held only by the holder of
\* table_manager and never both by one thread; no thread waits for a mutex it
\* holds itself, and the render/input loop and the poller never wait for a
\* mutex of each other at the same time.
C22_DeadlockFreedom ==
  /\ \A t \in Threads :
       /\ (held.table = t \/ held.filter = t => held.table_manager = t)
       /\ ~(held.table = t /\ held.filter = t)
       /\ ~WaitsFor(t, t)
  /\ ~(WaitsFor("ui", "poller") /\ WaitsFor("poller", "ui"))

\* the poller waits for table_manager while the loop, inside Pause, holds it
\* together with the filter mutex
C22_Witness ==
  /\ WaitsFor("poller", "ui")
  /\ pc.ui = "pause_filtered"
  /\ held.table_manager = "ui"
  /\ held.filter = "ui"
  /\ rows # <<>>
====
